---- MODULE Spec2Model ----
(***************************************************************************)
(* METW card enrichment (parsers/Step4_enrich_with_metw.py).               *)
(*                                                                         *)
(* A string is a sequence of one-character strings.  A similarity score is *)
(* the exact rational [num, den] that SequenceMatcher.ratio() rounds to a  *)
(* float.  The entity index is a Python dict: a sequence of [key, uri]     *)
(* entries in insertion order, with at most one entry per key.            *)
(***************************************************************************)
EXTENDS Integers, Sequences, FiniteSets, TLC

\* ------------------------------------------------------------------------
\* Bound of the matcher model: the longest name and the longest candidate
\* ------------------------------------------------------------------------
MaxLen == 2
\* Bound of the catalog model: the longest card collection
MaxCards == 2

\* characters of candidate names, and of the names in the graph (whose case
\* _build_entity_index folds away)
Alphabet == {"a", "A", " "}
NameAlphabet == {"A", " "}
Entities == {"e1", "e2"}
None == "None"

\* ------------------------------------------------------------------------
\* Strings
\* ------------------------------------------------------------------------
StrsOver(alphabet, n) == UNION {[1..k -> alphabet] : k \in 0..n}

LowerChar(c) ==
    CASE c = "A" -> "a"
      [] c = "B" -> "b"
      [] OTHER -> c

\* str.lower()
Lower(s) == [i \in 1..Len(s) |-> LowerChar(s[i])]

\* str.replace(' ', '')
RemoveSpaces(s) == SelectSeq(s, LAMBDA c : c # " ")

\* str.replace(' ', '_')
Underscore(s) == [i \in 1..Len(s) |-> IF s[i] = " " THEN "_" ELSE s[i]]

\* ------------------------------------------------------------------------
\* difflib.SequenceMatcher(None, a, b).ratio()
\* ------------------------------------------------------------------------
\* a[i:i+k] == b[j:j+k], indices counted from 0 as in Python
SameRun(a, b, i, j, k) == \A d \in 1..k : a[i + d] = b[j + d]

\* find_longest_match(alo, ahi, blo, bhi): the longest common run, the one
\* starting earliest in a, and of those the one starting earliest in b.
FindLongestMatch(a, b, alo, ahi, blo, bhi) ==
    LET runs == {r \in (alo..ahi) \X (blo..bhi) \X (1..(ahi - alo)) :
                    /\ r[1] + r[3] <= ahi
                    /\ r[2] + r[3] <= bhi
                    /\ SameRun(a, b, r[1], r[2], r[3])}
    IN IF runs = {} THEN <<alo, blo, 0>>
       ELSE LET best == {r \in runs : \A q \in runs : q[3] <= r[3]}
                first == {r \in best : \A q \in best : r[1] <= q[1]}
            IN CHOOSE r \in first : \A q \in first : r[2] <= q[2]

\* sum of the sizes of get_matching_blocks()
RECURSIVE MatchedChars(_, _, _, _, _, _)
MatchedChars(a, b, alo, ahi, blo, bhi) ==
    LET m == FindLongestMatch(a, b, alo, ahi, blo, bhi)
        i == m[1]
        j == m[2]
        k == m[3]
    IN IF k = 0 THEN 0
       ELSE k
            + (IF alo < i /\ blo < j
               THEN MatchedChars(a, b, alo, i, blo, j) ELSE 0)
            + (IF i + k < ahi /\ j + k < bhi
               THEN MatchedChars(a, b, i + k, ahi, j + k, bhi) ELSE 0)

\* ratio() = 2.0 * matches / length, and 1.0 when both strings are empty
Ratio(a, b) ==
    IF Len(a) + Len(b) = 0 THEN [num |-> 1, den |-> 1]
    ELSE [num |-> 2 * MatchedChars(a, b, 0, Len(a), 0, Len(b)),
          den |-> Len(a) + Len(b)]

ScoreGE(x, y) == x.num * y.den >= y.num * x.den
ScoreGT(x, y) == x.num * y.den > y.num * x.den
Zero == [num |-> 0, den |-> 1]

\* thresholds handed to find_best_match: 0, 1/2, the default 0.85, and 1
DefaultThreshold == [num |-> 17, den |-> 20]
Thresholds == {Zero, [num |-> 1, den |-> 2], DefaultThreshold,
               [num |-> 1, den |-> 1]}

similarity_score(str1, str2) == Ratio(Lower(str1), Lower(str2))

\* ------------------------------------------------------------------------
\* The entity index (a dict in insertion order)
\* ------------------------------------------------------------------------
HasKey(index, k) == \E i \in 1..Len(index) : index[i].key = k
KeyPos(index, k) == CHOOSE i \in 1..Len(index) : index[i].key = k
Get(index, k) == index[KeyPos(index, k)].uri
Keys(index) == {index[i].key : i \in 1..Len(index)}

\* DictSet with the first writer of a key kept
DictSet_KeepFirst(index, k, v) ==
    IF HasKey(index, k) THEN index
    ELSE Append(index, [key |-> k, uri |-> v])

\* index[k] = v: an existing key keeps its place and takes the new value
DictSet(index, k, v) ==
    IF HasKey(index, k)
    THEN [index EXCEPT ![KeyPos(index, k)].uri = v]
    ELSE Append(index, [key |-> k, uri |-> v])

\* IndexRow with the assignment index[name] = entity_uri left out
IndexRow_StrippedOnly(index, row) ==
    DictSet(index, RemoveSpaces(Lower(row.name)), row.entity)

\* one turn of the loop of _build_entity_index over a result row
IndexRow(index, row) ==
    LET name == Lower(row.name)
    IN DictSet(DictSet(index, name, row.entity), RemoveSpaces(name), row.entity)

\* rows: the (entity, name) rows of the schema:name query, in the order the
\* graph enumerates them
RECURSIVE IndexRows(_, _)
IndexRows(index, rows) ==
    IF rows = <<>> THEN index
    ELSE IndexRows(IndexRow(index, Head(rows)), Tail(rows))

_build_entity_index(rows) == IndexRows(<<>>, rows)

\* ------------------------------------------------------------------------
\* find_best_match
\* ------------------------------------------------------------------------
\* FuzzyLoop with the test "score >= threshold" left out
RECURSIVE FuzzyLoop_NoThreshold(_, _, _, _, _)
FuzzyLoop_NoThreshold(index, card_name, threshold, n, best) ==
    IF n > Len(index) THEN best
    ELSE LET score == similarity_score(card_name, index[n].key)
         IN FuzzyLoop_NoThreshold(index, card_name, threshold, n + 1,
                IF ScoreGT(score, best.score)
                THEN [score |-> score, match |-> index[n].uri, key |-> index[n].key]
                ELSE best)

\* FuzzyLoop with "score >= best_score" for "score > best_score"
RECURSIVE FuzzyLoop_LastWins(_, _, _, _, _)
FuzzyLoop_LastWins(index, card_name, threshold, n, best) ==
    IF n > Len(index) THEN best
    ELSE LET score == similarity_score(card_name, index[n].key)
         IN FuzzyLoop_LastWins(index, card_name, threshold, n + 1,
                IF ScoreGE(score, best.score) /\ ScoreGE(score, threshold)
                THEN [score |-> score, match |-> index[n].uri, key |-> index[n].key]
                ELSE best)

\* the loop over entity_index.items(), from entry n on; best is the loop's
\* state [score, match, key] (key: the entry that set match, for reference)
RECURSIVE FuzzyLoop(_, _, _, _, _)
FuzzyLoop(index, card_name, threshold, n, best) ==
    IF n > Len(index) THEN best
    ELSE LET score == similarity_score(card_name, index[n].key)
         IN FuzzyLoop(index, card_name, threshold, n + 1,
                IF ScoreGT(score, best.score) /\ ScoreGE(score, threshold)
                THEN [score |-> score, match |-> index[n].uri, key |-> index[n].key]
                ELSE best)

\* [match, key, exact]: the returned entity (or None), the index key it was
\* selected through, and whether the exact lookup returned it
FindBestMatch(index, card_name, threshold) ==
    LET card_name_lower == Lower(card_name)
    IN IF HasKey(index, card_name_lower)
       THEN [match |-> Get(index, card_name_lower), key |-> card_name_lower,
             exact |-> TRUE]
       ELSE LET best == FuzzyLoop(index, card_name, threshold, 1,
                            [score |-> Zero, match |-> None, key |-> <<>>])
            IN [match |-> best.match, key |-> best.key, exact |-> FALSE]

find_best_match(index, card_name, threshold) ==
    FindBestMatch(index, card_name, threshold).match

\* ------------------------------------------------------------------------
\* JSON values: <<t, v>> with t the Python type json.load produces and v the
\* content: the characters of a str, the elements of a list, the
\* <<key, value>> items of a dict in document order
\* ------------------------------------------------------------------------
JStr(s) == <<"str", s>>
JList(elems) == <<"list", elems>>
JDict(items) == <<"dict", items>>
JInt(n) == <<"int", <<n>>>>
JNull == <<"null", <<>>>>

\* k in d
DHas(d, k) == \E i \in 1..Len(d[2]) : d[2][i][1] = k
\* d.get(k, default)
DGet(d, k, default) ==
    IF DHas(d, k) THEN d[2][CHOOSE i \in 1..Len(d[2]) : d[2][i][1] = k][2]
    ELSE default
\* list(d.values())
DValues(d) == [i \in 1..Len(d[2]) |-> d[2][i][2]]

\* bool(x)
Truthy(x) ==
    CASE x[1] = "null" -> FALSE
      [] x[1] = "int" -> x[2][1] # 0
      [] OTHER -> x[2] # <<>>

\* len(x) raises TypeError for a value without a length
HasLen(x) == x[1] \in {"str", "list", "dict"}

\* what "for card in x" yields: the elements of a list, the keys of a dict,
\* the characters of a str (keys and characters are str objects)
Iterate(x) ==
    CASE x[1] = "list" -> x[2]
      [] x[1] = "dict" -> [i \in 1..Len(x[2]) |-> JStr(<<x[2][i][1]>>)]
      [] x[1] = "str" -> [i \in 1..Len(x[2]) |-> JStr(<<x[2][i]>>)]

\* ------------------------------------------------------------------------
\* enrich_with_cards: extraction of all_cards
\* ------------------------------------------------------------------------
\* the scan for the nested set structure, from item n on; it raises
\* AttributeError when a set's "cards" value has no .items()
RECURSIVE NestedScan(_, _, _)
NestedScan(cards_data, n, all_cards) ==
    IF n > Len(cards_data[2]) THEN [raised |-> FALSE, all_cards |-> all_cards]
    ELSE LET set_data == cards_data[2][n][2]
         IN IF set_data[1] = "dict" /\ DHas(set_data, "cards")
            THEN LET cs == DGet(set_data, "cards", JNull)
                 IN IF cs[1] # "dict"
                    THEN [raised |-> TRUE, all_cards |-> all_cards]
                    ELSE NestedScan(cards_data, n + 1, all_cards \o DValues(cs))
            ELSE NestedScan(cards_data, n + 1, all_cards)

\* Fallback with the "cards" key left out
Fallback_DataOnly(cards_data) == DGet(cards_data, "data", JList(<<>>))

\* Fallback: old structure
Fallback(cards_data) ==
    DGet(cards_data, "cards", DGet(cards_data, "data", JList(<<>>)))

\* all_cards as a JSON value, whether the fallback was taken, and whether
\* the extraction raised
ExtractCards(cards_data) ==
    IF cards_data[1] = "dict"
    THEN LET scan == NestedScan(cards_data, 1, <<>>)
         IN IF scan.raised
            THEN [raised |-> TRUE, fallback |-> FALSE, all_cards |-> JList(scan.all_cards)]
            ELSE IF scan.all_cards = <<>>
            THEN [raised |-> FALSE, fallback |-> TRUE, all_cards |-> Fallback(cards_data)]
            ELSE [raised |-> FALSE, fallback |-> FALSE, all_cards |-> JList(scan.all_cards)]
    ELSE [raised |-> FALSE, fallback |-> FALSE, all_cards |-> cards_data]

\* ------------------------------------------------------------------------
\* enrich_with_cards: the loop over all_cards
\* ------------------------------------------------------------------------
Uri(ns, id) == [kind |-> "uri", ns |-> ns, val |-> id]
\* Literal(f"{prefix}{text}", lang='en')
Lit(prefix, text) == [kind |-> "lit", ns |-> prefix, val |-> text]
Triple(s, p, o) == [s |-> s, p |-> p, o |-> o]

\* Handle multilingual names
ResolveName(card) ==
    LET card_name_obj == DGet(card, "name", JStr(<<>>))
    IN IF card_name_obj[1] = "dict"
       THEN DGet(card_name_obj, "en",
                DGet(card_name_obj, "es",
                    DGet(card_name_obj, "fr", JStr(<<>>))))
       ELSE card_name_obj

\* CardNodeId with the card's own id ignored
CardNodeId_NameOnly(card, card_name) == Underscore(card_name)

\* str(card.get('id', card_name.replace(' ', '_')))
CardNodeId(card, card_name) ==
    DGet(card, "id", JStr(Underscore(card_name)))[2]

\* the graph.add calls for a matched card, in order
LinkStatements(card, card_name, entity_uri) ==
    LET card_uri == Uri("metw", CardNodeId(card, card_name))
        card_set == DGet(card, "set", JStr(<<>>))
    IN <<Triple(card_uri, "rdf:type", Uri("schema", <<"Thing">>)),
         Triple(card_uri, "rdfs:label", Lit("", card_name)),
         Triple(Uri("tgr", <<entity_uri>>), "schema:subjectOf", card_uri)>>
       \o (IF DHas(card, "type")
           THEN <<Triple(card_uri, "schema:additionalType",
                         Lit("", DGet(card, "type", JNull)[2]))>>
           ELSE <<>>)
       \o (IF DHas(card, "alignment")
           THEN <<Triple(card_uri, "schema:additionalProperty",
                         Lit("alignment: ", DGet(card, "alignment", JNull)[2]))>>
           ELSE <<>>)
       \o (IF Truthy(card_set)
           THEN <<Triple(card_uri, "schema:isPartOf", Lit("METW Set: ", card_set[2]))>>
           ELSE <<>>)

Range(seq) == {seq[i] : i \in 1..Len(seq)}

\* the body of "if entity_uri:" and the record kept of the turn
LinkCard(acc, card, card_name, entity_uri, adds) ==
    [acc EXCEPT
       !.graph = @ \cup Range(adds),
       !.seen = Append(@, [card |-> card, name |-> card_name,
                           presented |-> TRUE, entity |-> entity_uri,
                           node |-> CardNodeId(card, card_name[2]),
                           adds |-> adds])]

\* a turn that links nothing
SkipCard(acc, card, card_name, presented) ==
    [acc EXCEPT
       !.seen = Append(@, [card |-> card, name |-> card_name,
                           presented |-> presented, entity |-> None,
                           node |-> <<>>, adds |-> <<>>])]

\* the turn from "entity_uri = self.find_best_match(card_name)" on
MatchCard(acc, card, card_name, entity_uri) ==
    IF entity_uri = None
    THEN SkipCard(acc, card, card_name, TRUE)
    ELSE LinkCard(acc, card, card_name, entity_uri,
                  LinkStatements(card, card_name[2], entity_uri))

\* the turn from "if not card_name" on; str.lower() of a name that is not
\* a str raises AttributeError
NamedCard(acc, card, card_name, index) ==
    IF ~Truthy(card_name)
    THEN SkipCard(acc, card, card_name, FALSE)
    ELSE IF card_name[1] # "str"
    THEN [acc EXCEPT !.raised = TRUE]
    ELSE MatchCard(acc, card, card_name,
                   find_best_match(index, card_name[2], DefaultThreshold))

\* one turn of the loop.  acc: [raised, graph, seen], seen holding one entry
\* per record reached: the record, its resolved name, whether the name was
\* handed to find_best_match, the entity returned, the new card node and
\* the graph.add calls made.  card.get raises AttributeError unless card is
\* a dict.
ProcessCard(acc, card, index) ==
    IF card[1] # "dict"
    THEN [acc EXCEPT !.raised = TRUE]
    ELSE NamedCard(acc, card, ResolveName(card), index)

RECURSIVE ProcessCards(_, _, _)
ProcessCards(acc, cards, index) ==
    IF cards = <<>> \/ acc.raised THEN acc
    ELSE ProcessCards(ProcessCard(acc, Head(cards), index), Tail(cards), index)

\* linked_count
LinkedCount(seen) == Cardinality({i \in 1..Len(seen) : seen[i].entity # None})

\* the outcome of enrich_with_cards: whether it raised, whether the
\* fallback was taken, all_cards, the graph, the record of the loop, and
\* the value returned
Outcome(ex, raised, g, seen) ==
    [raised |-> raised, fallback |-> ex.fallback, all_cards |-> ex.all_cards,
     graph |-> g, seen |-> seen, count |-> LinkedCount(seen)]

LoopOutcome(ex, acc) == Outcome(ex, acc.raised, acc.graph, acc.seen)

\* enrich_with_cards from "Found {len(all_cards)} cards" on; len() raises
\* TypeError for a value without a length
EnrichExtracted(g, index, ex) ==
    IF ex.raised THEN Outcome(ex, TRUE, g, <<>>)
    ELSE IF ~HasLen(ex.all_cards) THEN Outcome(ex, TRUE, g, <<>>)
    ELSE IF Len(ex.all_cards[2]) = 0 THEN Outcome(ex, FALSE, g, <<>>)
    ELSE LoopOutcome(ex, ProcessCards([raised |-> FALSE, graph |-> g, seen |-> <<>>],
                                      Iterate(ex.all_cards), index))

\* enrich_with_cards on an existing, decoded file
enrich_with_cards(g, index, cards_data) ==
    EnrichExtracted(g, index, ExtractCards(cards_data))

\* ------------------------------------------------------------------------
\* Catalog files
\* ------------------------------------------------------------------------
Absent == <<"absent", <<>>>>
\* cards_file.exists() is false
NoFile == <<"nofile", <<>>>>

Item(k, x) == IF x = Absent THEN <<>> ELSE << <<k, x>> >>

MkCard(name, id, type, alignment, set) ==
    JDict(Item("id", id) \o Item("name", name) \o Item("type", type)
          \o Item("alignment", alignment) \o Item("set", set))

Empty == JStr(<<>>)
NameAB == JStr(<<"a", "b">>)
NameA_B == JStr(<<"A", " ", "b">>)
NameAAA == JStr(<<"a", "a", "a">>)
NameB == JStr(<<"b">>)

LangNames ==
    {JDict(Item("en", en) \o Item("es", es) \o Item("fr", fr)) :
        en \in {Absent, Empty, NameAB},
        es \in {Absent, Empty, NameA_B},
        fr \in {Absent, Empty, NameAAA}}
PlainNames == {Absent, Empty, NameAB, NameA_B, NameAAA, NameB}

NameCards == {MkCard(n, Absent, Absent, Absent, Absent) : n \in LangNames \cup PlainNames}
FieldCards ==
    {MkCard(NameAB, Absent, ty, al, st) :
        ty \in {Absent, Empty, JStr(<<"H">>)},
        al \in {Absent, Empty, JStr(<<"g">>)},
        st \in {Absent, Empty, JStr(<<"A", "S">>)}}
IdCards == {MkCard(n, JStr(<<"7">>), Absent, Absent, Absent) : n \in {NameAB, NameA_B, NameB}}
RichCards == NameCards \cup FieldCards \cup IdCards

SmallCards ==
    {MkCard(NameAB, JStr(<<"7">>), JStr(<<"H">>), Absent, Absent),
     MkCard(NameA_B, Absent, Absent, Absent, JStr(<<"A", "S">>)),
     MkCard(NameAAA, Absent, Empty, Absent, Absent),
     MkCard(NameB, Absent, Absent, Absent, Absent),
     MkCard(JDict(Item("en", Empty) \o Item("es", NameA_B)), Absent, Absent, Absent, Absent)}

Collections ==
    {<<c>> : c \in RichCards} \cup UNION {[1..n -> SmallCards] : n \in 0..MaxCards}

\* {card-id -> card}
ById(cs) == JDict([i \in 1..Len(cs) |-> <<ToString(i), cs[i]>>])
SetOf(cs) == JDict(<< <<"cards", ById(cs)>> >>)

FirstOf(cs) == IF cs = <<>> THEN <<>> ELSE <<Head(cs)>>
RestOf(cs) == IF cs = <<>> THEN <<>> ELSE Tail(cs)

RecognizedForms == {"nested", "nested by two sets", "flat cards", "flat data", "bare"}
UnrecognizedForms == {"cards mapping", "set with card list"}

Payload(f, cs) ==
    CASE f = "nested" -> JDict(<< <<"AS", SetOf(cs)>> >>)
      [] f = "nested by two sets" ->
            JDict(<< <<"AS", SetOf(FirstOf(cs))>>,
                     <<"DM", SetOf(RestOf(cs))>> >>)
      [] f = "flat cards" -> JDict(<< <<"cards", JList(cs)>> >>)
      [] f = "flat data" -> JDict(<< <<"data", JList(cs)>> >>)
      [] f = "bare" -> JList(cs)
      [] f = "flat and nested" ->
            JDict(<< <<"cards", JList(cs)>>, <<"AS", SetOf(FirstOf(cs))>> >>)
      [] f = "cards mapping" -> JDict(<< <<"cards", ById(cs)>> >>)
      [] f = "set with card list" ->
            JDict(<< <<"AS", JDict(<< <<"cards", JList(cs)>> >>)>> >>)

Scalars == {JInt(5), JNull, Empty, NameAB}

\* [cards, form, data]: a decoded catalog file, the card collection it
\* presents and the shape it presents it in
Catalogs ==
    {[cards |-> cs, form |-> f, data |-> Payload(f, cs)] :
        cs \in Collections,
        f \in RecognizedForms \cup UnrecognizedForms \cup {"flat and nested"}}
    \cup {[cards |-> <<>>, form |-> "scalar", data |-> x] : x \in Scalars}
    \cup {[cards |-> <<>>, form |-> "empty mapping", data |-> JDict(<<>>)],
          [cards |-> <<>>, form |-> "no file", data |-> NoFile]}

\* ------------------------------------------------------------------------
\* Knowledge graphs
\* ------------------------------------------------------------------------
Rows == [entity : Entities, name : StrsOver(NameAlphabet, MaxLen)]
\* graphs of up to as many rows as there are entities: no name, one entity
\* with one or two names, or two entities with a name each, in either order
Graphs == UNION {[1..n -> Rows] : n \in 0..Cardinality(Entities)}

\* the knowledge graph the catalog runs enrich
BaseRows ==
    {[entity |-> "e1", name |-> <<"A", "B">>],
     [entity |-> "e2", name |-> <<"a", " ", "b">>],
     [entity |-> "e3", name |-> <<"a", "a", "a", "a">>]}

\* every order in which a query may enumerate a set of rows
Orders(S) ==
    {f \in [1..Cardinality(S) -> S] : \A i, j \in DOMAIN f : i # j => f[i] # f[j]}

\* the schema:name statements behind the rows
GraphOf(rs) ==
    {Triple(Uri("tgr", <<rs[i].entity>>), "schema:name", Lit("", rs[i].name)) :
        i \in 1..Len(rs)}

\* ------------------------------------------------------------------------
\* State
\* ------------------------------------------------------------------------
VARIABLES
    pc,            \* "loaded": graph parsed; "ready": index built;
                   \* "matched": find_best_match has returned;
                   \* "enriched" / "raised": enrich_with_cards returned / raised;
                   \* "saved": output written; "rerun": a second run has ended
    rows,          \* the graph's schema:name rows in enumeration order
    entity_index,  \* self.entity_index
    graph,         \* self.graph
    card_name,     \* argument of the last find_best_match call
    threshold,     \* argument of the last find_best_match call
    found,         \* what the last find_best_match call selected
    catalog,       \* the catalog file: [cards, form, data]
    run,           \* what enrich_with_cards did
    saved,         \* the output file: [written, triples]
    rows2,         \* enumeration order of the graph in the second run
    run2           \* what enrich_with_cards did in the second run

vars == <<pc, rows, entity_index, graph, card_name, threshold, found,
          catalog, run, saved, rows2, run2>>
matchVars == <<card_name, threshold, found>>
enrichVars == <<catalog, run, saved, rows2, run2>>

NoCall == [match |-> None, key |-> <<>>, exact |-> FALSE]
NoRun == [raised |-> FALSE, fallback |-> FALSE, all_cards |-> JNull,
          graph |-> {}, seen |-> <<>>, count |-> 0]
NotSaved == [written |-> FALSE, triples |-> {}]

\* Graph().parse(kg_file) has run; the index is not built yet
Loaded ==
    /\ pc = "loaded"
    /\ entity_index = <<>>
    /\ graph = GraphOf(rows)
    /\ card_name = <<>>
    /\ threshold = DefaultThreshold
    /\ found = NoCall
    /\ run = NoRun
    /\ saved = NotSaved
    /\ rows2 = <<>>
    /\ run2 = NoRun

\* any small graph; no catalog
Init ==
    /\ rows \in Graphs
    /\ catalog = [cards |-> <<>>, form |-> "no file", data |-> NoFile]
    /\ Loaded

\* the base graph in any enumeration order, and any catalog
InitEnrich ==
    /\ rows \in Orders(BaseRows)
    /\ catalog \in Catalogs
    /\ Loaded

\* the rest of METWEnricher.__init__
BuildEntityIndex ==
    /\ pc = "loaded"
    /\ pc' = "ready"
    /\ entity_index' = _build_entity_index(rows)
    /\ UNCHANGED <<rows, graph, matchVars, enrichVars>>

\* a call find_best_match(c, t); the call reads entity_index and changes
\* nothing, so one call per behaviour stands for every call
Match ==
    /\ pc = "ready"
    /\ \E c \in StrsOver(Alphabet, MaxLen), t \in Thresholds :
          /\ card_name' = c
          /\ threshold' = t
          /\ found' = FindBestMatch(entity_index, c, t)
    /\ pc' = "matched"
    /\ UNCHANGED <<rows, entity_index, graph, enrichVars>>

\* main: cards_file.exists(), enricher.enrich_with_cards(cards_file)
Enrich ==
    /\ pc = "ready"
    /\ catalog.data # NoFile
    /\ LET r == enrich_with_cards(graph, entity_index, catalog.data)
       IN /\ run' = r
          /\ graph' = r.graph
          /\ pc' = IF r.raised THEN "raised" ELSE "enriched"
    /\ UNCHANGED <<rows, entity_index, matchVars, catalog, saved, rows2, run2>>

\* main: enricher.save_enriched_kg(output_file) after the enrichment
SaveEnrichedKg ==
    /\ pc = "enriched"
    /\ saved' = [written |-> TRUE, triples |-> graph]
    /\ pc' = "saved"
    /\ UNCHANGED <<rows, entity_index, graph, matchVars, catalog, run, rows2, run2>>

\* main: no cards file, "Save anyway (no changes)"
SaveWithoutCards ==
    /\ pc = "ready"
    /\ catalog.data = NoFile
    /\ saved' = [written |-> TRUE, triples |-> graph]
    /\ pc' = "saved"
    /\ UNCHANGED <<rows, entity_index, graph, matchVars, catalog, run, rows2, run2>>

\* the output file after a run of main whose enrich_with_cards call ended
\* as r: save_enriched_kg overwrites the file with the run's graph, and is
\* not reached when the call raised
SavedAfter(r, file) ==
    IF r.raised THEN file ELSE [written |-> TRUE, triples |-> r.graph]

\* main run again with the same catalog over the same base graph: a new
\* process, which may enumerate the graph in another order, and which ends
\* with its own save_enriched_kg
Rerun ==
    /\ pc \in {"saved", "raised"}
    /\ catalog.data # NoFile
    /\ \E o \in Orders(Range(rows)) :
          /\ rows2' = o
          /\ run2' = enrich_with_cards(GraphOf(o), _build_entity_index(o), catalog.data)
    /\ saved' = SavedAfter(run2', saved)
    /\ pc' = "rerun"
    /\ UNCHANGED <<rows, entity_index, graph, matchVars, catalog, run>>

\* enrich_with_cards called again on the same enricher
EnrichAgain ==
    /\ pc = "enriched"
    /\ rows2' = rows
    /\ run2' = enrich_with_cards(graph, entity_index, catalog.data)
    /\ graph' = run2'.graph
    /\ pc' = "rerun"
    /\ UNCHANGED <<rows, entity_index, matchVars, catalog, run, saved>>

Next == BuildEntityIndex \/ Match

NextEnrich ==
    \/ BuildEntityIndex
    \/ Enrich
    \/ SaveEnrichedKg
    \/ SaveWithoutCards
    \/ Rerun
    \/ EnrichAgain

Spec == Init /\ [][Next]_vars

SpecEnrich == InitEnrich /\ [][NextEnrich]_vars

\* ------------------------------------------------------------------------
\* Properties of the index and the matcher (Spec)
\* ------------------------------------------------------------------------
RowIds == 1..Len(rows)
Key1(i) == Lower(rows[i].name)
Key2(i) == RemoveSpaces(Lower(rows[i].name))
Writes(i, k) == Key1(i) = k \/ Key2(i) = k
\* the last row in enumeration order that writes key k
LastWriter(k) == CHOOSE i \in RowIds : Writes(i, k) /\ \A j \in RowIds : Writes(j, k) => j <= i
\* a row of another entity writes key k
Contested(i, k) == \E j \in RowIds : rows[j].entity # rows[i].entity /\ Writes(j, k)

Built == pc # "loaded"
Called == pc = "matched"
ExactHit == HasKey(entity_index, Lower(card_name))
Score(n) == similarity_score(card_name, entity_index[n].key)
Entries == 1..Len(entity_index)

\* C1 as stated: whatever else the graph holds, a call with any casing of
\* the name N of an entity e returns e (checked for non-empty N).
C1_ExactNameInAnyGraph ==
    Called /\ card_name # <<>> =>
        \A i \in RowIds :
           Lower(card_name) = Key1(i) => found.match = rows[i].entity

\* C1 amended: a call with any casing of a name N in the graph takes the
\* exact path and returns the entity of the last enumerated row that wrote
\* the key lowercase N; that is e when no row of another entity has a name
\* whose lowercase form, or lowercase form without spaces, is lowercase N.
C1_ExactNameLastWriter ==
    Called => \A i \in RowIds :
                 Lower(card_name) = Key1(i) =>
                    /\ found.exact
                    /\ found.match = rows[LastWriter(Key1(i))].entity
                    /\ ~Contested(i, Key1(i)) => found.match = rows[i].entity

\* a call with another casing of a name with a space, in a graph with a
\* second entity, returned the name's entity
C1_Witness ==
    /\ Called
    /\ Len(rows) = 2
    /\ rows[1].entity # rows[2].entity
    /\ \E i \in RowIds :
          /\ Lower(card_name) = Key1(i)
          /\ card_name # rows[i].name
          /\ Key2(i) # Key1(i)
          /\ ~Contested(i, Key1(i))
          /\ found.match = rows[i].entity

\* C2: an entity returned by find_best_match(candidate, t) was selected
\* through an index key that maps to it and scores at least t against the
\* candidate, on the exact path and on the fuzzy path.
C2_NeverBelowThreshold ==
    Called /\ found.match # None =>
        /\ HasKey(entity_index, found.key)
        /\ Get(entity_index, found.key) = found.match
        /\ ScoreGE(similarity_score(card_name, found.key), threshold)

\* a fuzzy match at threshold 1/2 while another key scores below it
C2_Witness ==
    /\ Called
    /\ ~found.exact
    /\ found.match # None
    /\ threshold = [num |-> 1, den |-> 2]
    /\ \E n \in Entries : ~ScoreGE(Score(n), threshold)

\* C7 as stated: the index has no empty key, and find_best_match("")
\* returns no match.
C7_EmptyNamesExcluded ==
    /\ Built => ~HasKey(entity_index, <<>>)
    /\ Called /\ card_name = <<>> => found.match = None

\* C8 as stated: the two keys of every name in the graph map to the same
\* entity, and each key has one entry (checked on graphs whose names all
\* have a character other than a space).
C8_TwoKeysSameEntity ==
    Built /\ ~HasKey(entity_index, <<>>) =>
             /\ \A m, n \in Entries : entity_index[m].key = entity_index[n].key => m = n
             /\ \A i \in RowIds :
                   /\ HasKey(entity_index, Key1(i))
                   /\ HasKey(entity_index, Key2(i))
                   /\ Get(entity_index, Key1(i)) = Get(entity_index, Key2(i))

\* C8 amended: each key has one entry; the keys are the two keys of every
\* name; a key maps to the entity of the last enumerated row that wrote it;
\* the two keys of a name map to the name's entity when no row of another
\* entity writes either of them.
C8_LastWriteWins ==
    Built => /\ \A m, n \in Entries : entity_index[m].key = entity_index[n].key => m = n
             /\ Keys(entity_index) = {Key1(i) : i \in RowIds} \cup {Key2(i) : i \in RowIds}
             /\ \A k \in Keys(entity_index) :
                   Get(entity_index, k) = rows[LastWriter(k)].entity
             /\ \A i \in RowIds :
                   ~Contested(i, Key1(i)) /\ ~Contested(i, Key2(i)) =>
                      /\ Get(entity_index, Key1(i)) = rows[i].entity
                      /\ Get(entity_index, Key2(i)) = rows[i].entity

\* the second row took over the space-free key of the first row's name
C8_Witness ==
    /\ Built
    /\ Len(rows) = 2
    /\ rows[1].entity # rows[2].entity
    /\ Key1(1) # Key2(1)
    /\ Key1(2) = Key2(1)
    /\ Get(entity_index, Key1(1)) = rows[1].entity
    /\ Get(entity_index, Key2(1)) = rows[2].entity

\* the entries with the highest score, and the first of them
Top == {n \in Entries : \A m \in Entries : ScoreGE(Score(n), Score(m))}
FirstTop == CHOOSE n \in Top : \A m \in Top : n <= m

\* C10 as stated: off the exact path, the entity of the first best-scoring
\* key is returned whenever some key scores at least t, and no match is
\* returned exactly when no key does (checked for a non-empty candidate on
\* indexes without an empty key).
C10_BestKeyAtOrAboveThreshold ==
    Called /\ ~ExactHit /\ card_name # <<>> /\ ~HasKey(entity_index, <<>>) =>
        IF \E n \in Entries : ScoreGE(Score(n), threshold)
        THEN found.match = entity_index[FirstTop].uri
        ELSE found.match = None

\* C10 amended: off the exact path, the entity of the first best-scoring
\* key is returned whenever some key scores at least t and above 0, and no
\* match is returned exactly when no key does.
C10_BestPositiveKeyAtOrAboveThreshold ==
    Called /\ ~ExactHit =>
        IF \E n \in Entries : ScoreGE(Score(n), threshold) /\ ScoreGT(Score(n), Zero)
        THEN /\ found.match = entity_index[FirstTop].uri
             /\ found.key = entity_index[FirstTop].key
        ELSE found.match = None

\* two keys of different entities tie for the best score; the first wins
C10_Witness ==
    /\ Called
    /\ ~ExactHit
    /\ \E m, n \in Top :
          /\ m < n
          /\ entity_index[m].uri # entity_index[n].uri
          /\ found.match = entity_index[m].uri
    /\ ScoreGT(threshold, Zero)

\* ------------------------------------------------------------------------
\* Properties of the enrichment (SpecEnrich)
\* ------------------------------------------------------------------------
Ran == pc \in {"enriched", "raised", "saved", "rerun"}
Count(x, seq) == Cardinality({i \in 1..Len(seq) : seq[i] = x})
SameBag(s1, s2) ==
    /\ Len(s1) = Len(s2)
    /\ \A x \in Range(s1) \cup Range(s2) : Count(x, s1) = Count(x, s2)
Linked(r) == {i \in 1..Len(r.seen) : r.seen[i].entity # None}

\* C3: the nested, the flat ("cards" or "data") and the bare form of a
\* card collection all extract to the records of the collection, order
\* aside; the fallback is taken only when the nested scan found nothing,
\* and a payload that has both a top-level "cards" list and a nested set
\* extracts to the nested set's records.
C3_SameRecordsInEveryShape ==
    Ran =>
       /\ catalog.form \in RecognizedForms =>
             /\ ~run.raised
             /\ run.all_cards[1] = "list"
             /\ SameBag(run.all_cards[2], catalog.cards)
       /\ run.fallback => NestedScan(catalog.data, 1, <<>>).all_cards = <<>>
       /\ catalog.form = "flat and nested" /\ catalog.cards # <<>> =>
             /\ ~run.fallback
             /\ run.all_cards = JList(FirstOf(catalog.cards))

\* two different cards spread over two sets were extracted and one linked
C3_Witness ==
    /\ pc = "enriched"
    /\ catalog.form = "nested by two sets"
    /\ Len(catalog.cards) = 2
    /\ catalog.cards[1] # catalog.cards[2]
    /\ run.count >= 1

\* C4 as stated: on an empty payload or one in none of the three shapes,
\* enrich_with_cards returns without raising, links nothing, leaves the
\* graph as it was, and the run goes on to save.
C4_UnrecognizedShapeHarmless ==
    (\/ catalog.form \in UnrecognizedForms \cup {"scalar", "empty mapping"}
     \/ catalog.form \in RecognizedForms /\ catalog.cards = <<>>) =>
        /\ pc # "raised"
        /\ Ran => run.count = 0 /\ graph = GraphOf(rows)
        /\ pc = "saved" => saved = [written |-> TRUE, triples |-> GraphOf(rows)]

Field(rec, f) == DGet(rec.card, f, Absent)
Emitted(rec, p) == Cardinality({i \in 1..Len(rec.adds) : rec.adds[i].p = p})

\* C5 as stated: for a linked record each of the additionalType,
\* additionalProperty and isPartOf statements is added at most once, and is
\* added exactly when the type, alignment or set field is present and
\* non-empty.
C5_OptionalStatements ==
    Ran => \A i \in Linked(run) :
              \A fp \in {<<"type", "schema:additionalType">>,
                         <<"alignment", "schema:additionalProperty">>,
                         <<"set", "schema:isPartOf">>} :
                 LET rec == run.seen[i]
                     x == Field(rec, fp[1])
                 IN /\ Emitted(rec, fp[2]) <= 1
                    /\ Emitted(rec, fp[2]) = 1 <=> (x # Absent /\ x[2] # <<>>)

\* the first non-empty entry of a language mapping in the order en, es,
\* fr, or the empty string
FirstNonEmpty(obj) ==
    LET en == DGet(obj, "en", Empty)
        es == DGet(obj, "es", Empty)
        fr == DGet(obj, "fr", Empty)
    IN IF en # Empty THEN en ELSE IF es # Empty THEN es ELSE fr

\* C6 as stated: a record whose name is a language mapping resolves to the
\* first non-empty entry in the order English, Spanish, French, and is
\* handed to find_best_match exactly when there is one.
C6_LanguageOrder ==
    Ran => \A i \in 1..Len(run.seen) :
              LET rec == run.seen[i]
                  obj == DGet(rec.card, "name", Empty)
              IN obj[1] = "dict" =>
                    /\ rec.presented <=> FirstNonEmpty(obj) # Empty
                    /\ rec.presented => rec.name = FirstNonEmpty(obj)

\* the identifier the record alone determines
ExpectedId(card) ==
    IF DHas(card, "id") THEN DGet(card, "id", Empty)[2]
    ELSE Underscore(ResolveName(card)[2])
Nodes(r) == {r.seen[i].node : i \in Linked(r)}

\* C9: a second run with the same catalog over the same base graph links
\* the same records and mints the same card identifiers as the first, each
\* the card's id if it has one and else its resolved name with spaces
\* replaced by underscores.
C9_StableCardIds ==
    pc = "rerun" =>
       /\ run2.raised = run.raised
       /\ Len(run2.seen) = Len(run.seen)
       /\ Linked(run2) = Linked(run)
       /\ Nodes(run2) = Nodes(run)
       /\ \A i \in Linked(run) :
             /\ run2.seen[i].card = run.seen[i].card
             /\ run.seen[i].node = ExpectedId(run.seen[i].card)
             /\ run2.seen[i].node = ExpectedId(run.seen[i].card)

\* the second run enumerated the graph in another order and linked a card
\* that has an id to another entity; a card without an id got its name
\* with an underscore
C9_Witness ==
    /\ pc = "rerun"
    /\ rows2 # rows
    /\ \E i \in Linked(run) :
          /\ DHas(run.seen[i].card, "id")
          /\ run2.seen[i].entity # run.seen[i].entity
    /\ \E i \in Linked(run) :
          /\ ~DHas(run.seen[i].card, "id")
          /\ \E n \in 1..Len(run.seen[i].node) : run.seen[i].node[n] = "_"

====

